---- MODULE Spec2Model ----
(***************************************************************************)
(* Model of examples/ex23p.cpp: the PML layer geometry, the element        *)
(* classifier, the complex stretching function, the PML coefficient        *)
(* callables, the essential boundary data and the wiring of the            *)
(* sesquilinear form.                                                      *)
(*                                                                         *)
(* Two specifications.  Spec applies the functions of the file in each of  *)
(* the four problem variants, on the meshes, frequencies and points drawn. *)
(* MainSpec is main as written, statement by statement.                    *)
(*                                                                         *)
(* Numbers.  Coordinates are integers (the meshes drawn have extents that  *)
(* are multiples of 8, so 0.25*extent and 0.125*extent are exact).  A      *)
(* point handed to a callable is a tuple of pairs <<g, o>> standing for    *)
(* the coordinate g + o * 0.5e-13, which is what the 1e-13 tolerance of    *)
(* the boundary data needs.  Values computed by the stretching function    *)
(* are extended rationals <<num, den>>: den > 0 is num/den in lowest       *)
(* terms, <<1,0>> is +inf, <<-1,0>> is -inf and <<0,0>> is NaN, with the   *)
(* IEEE-754 rules for them.  Rounding is not modelled.                     *)
(*                                                                         *)
(* Arrays keep the source's 0-based indices through the accessors At and   *)
(* At2 over 1-based tuples.                                                *)
(***************************************************************************)
EXTENDS Integers, Sequences, FiniteSets, TLC

VARIABLES pc, prob, dim, omega, box, level,
          domain_bdr, pml_lngth, comp_domain_bdr, oob,
          elems_pml, a_integ, x, dxs, taken, coefs, E_Re, E_Im,
          args, log, b_integ, f_im

vars == <<pc, prob, dim, omega, box, level,
          domain_bdr, pml_lngth, comp_domain_bdr, oob,
          elems_pml, a_integ, x, dxs, taken, coefs, E_Re, E_Im,
          args, log, b_integ, f_im>>

\* the command line, the calls main has made, the linear form and the value
\* of source_im: the state of a run of main
mainVars == <<args, log, b_integ, f_im>>

(***************************************************************************)
(* Bounds of the model.                                                    *)
(***************************************************************************)
\* the mesh extents drawn: interval k is [-8*(k-1), 8], k in 1..MaxExt
MaxExt == 2
\* the frequencies drawn: omega = 5*k, k in 1..MaxFreq
MaxFreq == 1
\* the number of uniform refinements main may apply (ref_levels + par_ref_levels)
MaxRef == 3

(***************************************************************************)
(* Extended rational arithmetic (double, without rounding).                *)
(***************************************************************************)
Abs(v) == IF v < 0 THEN -v ELSE v

Sgn(v) == IF v < 0 THEN -1 ELSE IF v > 0 THEN 1 ELSE 0

RECURSIVE GCD(_, _)
GCD(m, k) == IF k = 0 THEN m ELSE GCD(k, m % k)

QNaN == <<0, 0>>

QInf(s) == <<s, 0>>

Q(v) == <<v, 1>>

QNorm(num, den) ==
    IF den = 0 THEN <<Sgn(num), 0>>
    ELSE LET g == GCD(Abs(num), Abs(den))
             s == Sgn(den)
         IN  <<(s * num) \div g, (s * den) \div g>>

QFinite(q) == q[2] # 0

QIsNaN(q) == q = QNaN

QAdd(p, q) ==
    IF QIsNaN(p) \/ QIsNaN(q) THEN QNaN
    ELSE IF ~QFinite(p) /\ ~QFinite(q) THEN (IF p[1] = q[1] THEN p ELSE QNaN)
    ELSE IF ~QFinite(p) THEN p
    ELSE IF ~QFinite(q) THEN q
    ELSE QNorm(p[1] * q[2] + q[1] * p[2], p[2] * q[2])

QNeg(p) == <<-p[1], p[2]>>

QSub(p, q) == QAdd(p, QNeg(q))

QMul(p, q) ==
    IF QIsNaN(p) \/ QIsNaN(q) THEN QNaN
    ELSE IF ~QFinite(p) \/ ~QFinite(q)
         THEN (IF p[1] = 0 \/ q[1] = 0 THEN QNaN ELSE QInf(Sgn(p[1]) * Sgn(q[1])))
    ELSE QNorm(p[1] * q[1], p[2] * q[2])

QDiv(p, q) ==
    IF QIsNaN(p) \/ QIsNaN(q) THEN QNaN
    ELSE IF ~QFinite(p) THEN (IF ~QFinite(q) THEN QNaN
                              ELSE QInf(p[1] * (IF q[1] < 0 THEN -1 ELSE 1)))
    ELSE IF ~QFinite(q) THEN Q(0)
    ELSE IF q[1] = 0 THEN (IF p[1] = 0 THEN QNaN ELSE QInf(Sgn(p[1])))
    ELSE QNorm(p[1] * q[2], p[2] * q[1])

QAbs(p) == <<Abs(p[1]), p[2]>>

(***************************************************************************)
(* std::complex<double> as [re, im] of extended rationals.                 *)
(***************************************************************************)
Cx(re, im) == [re |-> re, im |-> im]

COne == Cx(Q(1), Q(0))

CZi == Cx(Q(0), Q(1))

\* complex * double : both parts are scaled
CScale(z, r) == Cx(QMul(z.re, r), QMul(z.im, r))

CAdd(z, w) == Cx(QAdd(z.re, w.re), QAdd(z.im, w.im))

CFinite(z) == QFinite(z.re) /\ QFinite(z.im)

CNaN == Cx(QNaN, QNaN)

\* complex * complex; a non-finite operand gives a non-finite result
CMul(z, w) ==
    IF ~CFinite(z) \/ ~CFinite(w) THEN CNaN
    ELSE Cx(QSub(QMul(z.re, w.re), QMul(z.im, w.im)),
            QAdd(QMul(z.re, w.im), QMul(z.im, w.re)))

\* complex / complex
CDiv(z, w) ==
    IF ~CFinite(z) \/ ~CFinite(w) THEN CNaN
    ELSE LET nrm == QAdd(QMul(w.re, w.re), QMul(w.im, w.im))
         IN  Cx(QDiv(QAdd(QMul(z.re, w.re), QMul(z.im, w.im)), nrm),
                QDiv(QSub(QMul(z.im, w.re), QMul(z.re, w.im)), nrm))

\* pow(z, 2)
CSqr(z) == CMul(z, z)

(***************************************************************************)
(* 0-based access to vectors and Array2D.                                  *)
(***************************************************************************)
At(v, i) == v[i + 1]

At2(A, i, j) == A[i + 1][j + 1]

InBounds2(A, i, j) == i >= 0 /\ i < Len(A) /\ j >= 0 /\ j < 2

\* A(i,j) = v; a write outside the allocated rows does not land in the array
Set2(A, i, j, v) ==
    IF InBounds2(A, i, j) THEN [A EXCEPT ![i + 1][j + 1] = v] ELSE A

(***************************************************************************)
(* Program constants and the problem variants.                             *)
(***************************************************************************)
ProbTypes == {"load_src", "scatter", "waveguide", "cyl_waveguide"}

\* pml_function: double n = 2.0
n == 2
\* pml_function: double c = 10.0
c == 10
\* the tolerance 1e-13 of E_bdr_data_Re/Im, in offset units of 0.5e-13
Tol == 2

\* what memory that was allocated and never written can hold
Garbage == {0, 3}

\* min and max of the never-written zcoords of a 2-D mesh
ZGarbage == {<<0, 0>>, <<0, 8>>}

\* omega = 2.0 * M_PI * freq, for the frequencies freq = 5*k / (2*pi)
Omegas == {5 * k : k \in 1..MaxFreq}

(***************************************************************************)
(* The mesh: a Cartesian box mesh of quadrilaterals / hexahedra, 2^level   *)
(* cells per axis.  box[i+1] = <<lo, hi>> is the extent on axis i.         *)
(***************************************************************************)
Interval(k) == <<-8 * (k - 1), 8>>

Boxes(d) ==
    {[i \in 1..d |-> Interval(k)] : k \in 1..MaxExt}
    \cup {[i \in 1..d |-> Interval(((i + s) % MaxExt) + 1)] : s \in 0..(MaxExt - 1)}

Lo(b, i) == b[i + 1][1]

Hi(b, i) == b[i + 1][2]

Cells(lv) == 2 ^ lv

RECURSIVE IPow(_, _)
IPow(b, e) == IF e = 0 THEN 1 ELSE b * IPow(b, e - 1)

\* the comp-th digit of idx written in base m
Digit(idx, comp, m) == (idx \div IPow(m, comp)) % m

\* pmesh->GetNE()
GetNE(d, lv) == IPow(Cells(lv), d)

\* nodes->FESpace()->GetNDofs() of the vertex nodes
GetNDofs(d, lv) == IPow(Cells(lv) + 1, d)

\* the nodes of the mesh with 2^lv cells per axis have integer coordinates
Representable(b, d, lv) ==
    \A comp \in 0..(d - 1) : (Hi(b, comp) - Lo(b, comp)) % Cells(lv) = 0

\* (*nodes)[DofToVDof(i, comp)] : coordinate comp of node i
NodeCoord(b, d, lv, i, comp) ==
    Lo(b, comp) + Digit(i, comp, Cells(lv) + 1) * ((Hi(b, comp) - Lo(b, comp)) \div Cells(lv))

\* the corner offsets of a quadrilateral / hexahedron, in vertex order
Corners(d) ==
    IF d = 2 THEN << <<0, 0>>, <<1, 0>>, <<1, 1>>, <<0, 1>> >>
    ELSE << <<0, 0, 0>>, <<1, 0, 0>>, <<1, 1, 0>>, <<0, 1, 0>>,
            <<0, 0, 1>>, <<1, 0, 1>>, <<1, 1, 1>>, <<0, 1, 1>> >>

RECURSIVE VertexIndex(_, _, _, _, _)
VertexIndex(d, lv, e, cnr, comp) ==
    IF comp >= d THEN 0
    ELSE (Digit(e, comp, Cells(lv)) + cnr[comp + 1]) * IPow(Cells(lv) + 1, comp)
         + VertexIndex(d, lv, e, cnr, comp + 1)

\* el->GetVertices(vertices)
GetVertices(d, lv, e) ==
    [iv \in 1..Len(Corners(d)) |-> VertexIndex(d, lv, e, Corners(d)[iv], 0)]

SetMin(S) == CHOOSE m \in S : \A y \in S : m <= y

SetMax(S) == CHOOSE m \in S : \A y \in S : m >= y

(***************************************************************************)
(* compute_pml_mesh_data                                                   *)
(***************************************************************************)
\* Array2D<double>::SetSize(m, 2) on an empty array: the storage is allocated
\* and not written, so every entry holds what the memory held
Array2D_SetSize(m, fill) == [i \in 1..m |-> <<fill, fill>>]

\* domain_bdr: min and max of each coordinate component over the nodes; the
\* components the mesh does not have are the min and max of unwritten memory
GetDomainBdr(b, d, lv, zg) ==
    [comp1 \in 1..3 |->
        IF comp1 <= d
        THEN LET cs == {NodeCoord(b, d, lv, i, comp1 - 1) : i \in 0..(GetNDofs(d, lv) - 1)}
             IN  <<SetMin(cs), SetMax(cs)>>
        ELSE zg]

\* variant of QuarterExtent: the lower bound is not subtracted
QuarterExtent_OfMax(db, i) == At2(db, i, 1) \div 4

\* variant of QuarterExtent: half of the extent instead of a quarter
QuarterExtent_Half(db, i) == (At2(db, i, 1) - At2(db, i, 0)) \div 2

\* 0.25 * (domain_bdr(i, 1) - domain_bdr(i, 0))
QuarterExtent(db, i) == (At2(db, i, 1) - At2(db, i, 0)) \div 4

\* 0.125 * (domain_bdr(i, 1) - domain_bdr(i, 0))
EighthExtent(db, i) == (At2(db, i, 1) - At2(db, i, 0)) \div 8

\* one pass of the loop body of the scatter / load_src branch
ScatterBody(db, st, i) ==
    LET pl1 == Set2(Set2(st.pl, i, 0, QuarterExtent(db, i)), i, 1, QuarterExtent(db, i))
        cd1 == Set2(st.cd, i, 0, At2(db, i, 0) + At2(pl1, i, 0))
        cd2 == Set2(cd1, i, 1, At2(db, i, 1) - At2(pl1, i, 1))
    IN  [pl |-> pl1, cd |-> cd2]

RECURSIVE ScatterLoop(_, _, _, _)
ScatterLoop(db, d, st, i) ==
    IF i >= d THEN st ELSE ScatterLoop(db, d, ScatterBody(db, st, i), i + 1)

\* the loop of the two waveguide branches: the whole box is computational
RECURSIVE CopyLoop(_, _, _, _)
CopyLoop(db, d, cd, i) ==
    IF i >= d THEN cd
    ELSE CopyLoop(db, d, Set2(Set2(cd, i, 0, At2(db, i, 0)), i, 1, At2(db, i, 1)), i + 1)

\* the waveguide branch: pml only in the x direction
WaveguideBranch(db, d, st) ==
    LET cd0 == CopyLoop(db, d, st.cd, 0)
        pl1 == Set2(st.pl, 0, 1, QuarterExtent(db, 0))
    IN  [pl |-> pl1, cd |-> Set2(cd0, 0, 1, At2(db, 0, 1) - At2(pl1, 0, 1))]

\* the axis the cyl_waveguide branch writes
CylAxis == 2

\* the cyl_waveguide branch: pml only in the z direction
CylBranch(db, d, st) ==
    LET cd0 == CopyLoop(db, d, st.cd, 0)
        w   == EighthExtent(db, CylAxis)
        pl1 == Set2(st.pl, CylAxis, 1, w)
    IN  [pl |-> pl1, cd |-> Set2(cd0, CylAxis, 1, At2(db, CylAxis, 1) - w)]

\* the arrays compute_pml_mesh_data leaves behind
MeshData(p, b, d, lv, fill, zg) ==
    LET db == GetDomainBdr(b, d, lv, zg)
        st == [pl |-> Array2D_SetSize(d, fill), cd |-> Array2D_SetSize(d, fill)]
        r  == IF p \in {"scatter", "load_src"} THEN ScatterLoop(db, d, st, 0)
              ELSE IF p = "waveguide" THEN WaveguideBranch(db, d, st)
              ELSE CylBranch(db, d, st)
    IN  [db |-> db, pl |-> r.pl, cd |-> r.cd,
         oob |-> (p = "cyl_waveguide" /\ ~InBounds2(st.pl, CylAxis, 1))]

(***************************************************************************)
(* The state after the mesh is read (main, line 146).                      *)
(***************************************************************************)
Init ==
    /\ pc = "mesh_data"
    /\ prob \in ProbTypes
    /\ dim \in {2, 3}
    /\ omega \in Omegas
    /\ box \in Boxes(dim)
    /\ level = 0
    /\ domain_bdr = <<>>
    /\ pml_lngth = <<>>
    /\ comp_domain_bdr = <<>>
    /\ oob = FALSE
    /\ elems_pml = <<>>
    /\ a_integ = <<>>
    /\ x = <<>>
    /\ dxs = <<>>
    /\ taken = <<>>
    /\ coefs = <<>>
    /\ E_Re = <<>>
    /\ E_Im = <<>>
    /\ args = <<>>
    /\ log = <<>>
    /\ b_integ = <<>>
    /\ f_im = <<>>

\* main, line 147: compute_pml_mesh_data(mesh).  An index outside the arrays
\* is undefined: a build with bounds checks stops, another goes on.
compute_pml_mesh_data ==
    /\ pc = "mesh_data"
    /\ \E fill \in Garbage, zg \in (IF dim = 3 THEN {<<0, 0>>} ELSE ZGarbage) :
         LET r == MeshData(prob, box, dim, level, fill, zg)
         IN  /\ domain_bdr' = r.db
             /\ pml_lngth' = r.pl
             /\ comp_domain_bdr' = r.cd
             /\ oob' = r.oob
             /\ \/ pc' = "configured"
                \/ r.oob /\ pc' = "aborted"
    /\ UNCHANGED <<prob, dim, omega, box, level, elems_pml, a_integ,
                   x, dxs, taken, coefs, E_Re, E_Im>>
    /\ UNCHANGED mainVars

(***************************************************************************)
(* main, lines 155-178: refinement and compute_pml_elem_list               *)
(***************************************************************************)
\* mesh->UniformRefinement() / pmesh->UniformRefinement(): every cell is halved
\* along every axis
UniformRefinement ==
    /\ pc \in {"configured", "refined"}
    /\ level < MaxRef
    /\ Representable(box, dim, level + 1)
    /\ level' = level + 1
    /\ pc' = "refined"
    /\ UNCHANGED <<prob, dim, omega, box, domain_bdr, pml_lngth, comp_domain_bdr, oob,
                   elems_pml, a_integ, x, dxs, taken, coefs, E_Re, E_Im>>
    /\ UNCHANGED mainVars

\* coords(vert_idx, comp)
coords(vert_idx, comp) == NodeCoord(box, dim, level, vert_idx, comp)

\* variant of OutsideCompBox: the comparisons are not strict
OutsideCompBox_NonStrict(v, comp) ==
    \/ v >= At2(comp_domain_bdr, comp, 1)
    \/ v <= At2(comp_domain_bdr, comp, 0)

\* variant of OutsideCompBox: the two bounds of the box are exchanged
OutsideCompBox_Swapped(v, comp) ==
    \/ v > At2(comp_domain_bdr, comp, 0)
    \/ v < At2(comp_domain_bdr, comp, 1)

\* the test of the innermost if: the coordinate is strictly outside the box
OutsideCompBox(v, comp) ==
    \/ v > At2(comp_domain_bdr, comp, 1)
    \/ v < At2(comp_domain_bdr, comp, 0)

\* for (comp = 0; comp < dim; ++comp) { if (...) { in_pml = true; break; } }
RECURSIVE CompLoop(_, _, _)
CompLoop(vert_idx, comp, in_pml) ==
    IF comp >= dim THEN in_pml
    ELSE IF OutsideCompBox(coords(vert_idx, comp), comp) THEN TRUE
    ELSE CompLoop(vert_idx, comp + 1, in_pml)

\* for (iv = 0; iv < nrvert; ++iv)
RECURSIVE VertLoop(_, _, _)
VertLoop(vertices, iv, in_pml) ==
    IF iv >= Len(vertices) THEN in_pml
    ELSE VertLoop(vertices, iv + 1, CompLoop(At(vertices, iv), 0, in_pml))

\* elem_pml[i] after the body of the element loop: 1, or 0 when in_pml
ElemFlag(i) == IF VertLoop(GetVertices(dim, level, i), 0, FALSE) THEN 0 ELSE 1

compute_pml_elem_list ==
    /\ pc \in {"configured", "refined"}
    /\ elems_pml' = [i1 \in 1..GetNE(dim, level) |-> ElemFlag(i1 - 1)]
    /\ pc' = "classified"
    /\ UNCHANGED <<prob, dim, omega, box, level, domain_bdr, pml_lngth, comp_domain_bdr,
                   oob, a_integ, x, dxs, taken, coefs, E_Re, E_Im>>
    /\ UNCHANGED mainVars

(***************************************************************************)
(* pml_function                                                            *)
(***************************************************************************)
RECURSIVE QPow(_, _)
QPow(q, e) == IF e = 0 THEN Q(1) ELSE QMul(q, QPow(q, e - 1))

\* variant of HighBranch: compared with the lower bound of the box
HighBranch_LowBound(xv, i) == At(xv, i) >= At2(comp_domain_bdr, i, 0)

\* if (x(i) >= comp_domain_bdr(i, 1))
HighBranch(xv, i) == At(xv, i) >= At2(comp_domain_bdr, i, 1)

\* if (x(i) <= comp_domain_bdr(i, 0))
LowBranch(xv, i) == At(xv, i) <= At2(comp_domain_bdr, i, 0)

\* variant of Stretch: the distance is raised to the power n
Stretch_PowN(xv, i, j) ==
    LET coeff == QDiv(QDiv(QMul(Q(n), Q(c)), Q(omega)), QPow(Q(At2(pml_lngth, i, j)), n))
        dist  == QAbs(QPow(Q(At(xv, i) - At2(comp_domain_bdr, i, j)), n))
    IN  CAdd(COne, CScale(CScale(CZi, coeff), dist))

\* coeff = n * c / omega / pow(pml_lngth(i, j), n);
\* one + zi * coeff * abs(pow(x(i) - comp_domain_bdr(i, j), n - 1.0))
Stretch(xv, i, j) ==
    LET coeff == QDiv(QDiv(QMul(Q(n), Q(c)), Q(omega)), QPow(Q(At2(pml_lngth, i, j)), n))
        dist  == QAbs(QPow(Q(At(xv, i) - At2(comp_domain_bdr, i, j)), n - 1))
    IN  CAdd(COne, CScale(CScale(CZi, coeff), dist))

\* one pass of the j loop on axis i
StretchBody(prev, xv, i) ==
    LET d1 == IF HighBranch(xv, i) THEN Stretch(xv, i, 1) ELSE prev
    IN  IF LowBranch(xv, i) THEN Stretch(xv, i, 0) ELSE d1

\* dxs after pml_function(x, dxs); the j loop runs its body twice
pml_function(xv) ==
    [i1 \in 1..dim |-> StretchBody(StretchBody(COne, xv, i1 - 1), xv, i1 - 1)]

\* which branches pml_function takes at x, per axis
BranchesTaken(xv) ==
    [i1 \in 1..dim |-> [hi |-> HighBranch(xv, i1 - 1), lo |-> LowBranch(xv, i1 - 1)]]

(***************************************************************************)
(* The six coefficient callables                                           *)
(***************************************************************************)
\* det *= dxs[i] for i < dim
RECURSIVE DetLoop(_, _, _)
DetLoop(ds, i, det) ==
    IF i >= Len(ds) THEN det ELSE DetLoop(ds, i + 1, CMul(det, At(ds, i)))

\* det_inv = one / det
pml_detJ_inv(xv) == CDiv(COne, DetLoop(pml_function(xv), 0, COne))

pml_detJ_inv_Re(xv) == pml_detJ_inv(xv).re

pml_detJ_inv_Im(xv) == pml_detJ_inv(xv).im

\* diag[i] = one / pow(dxs[i], 2); temp = det * diag[i]
pml_detJ_JT_J_inv(xv) ==
    LET ds == pml_function(xv)
        det == DetLoop(ds, 0, COne)
    IN  [i1 \in 1..dim |-> CMul(det, CDiv(COne, CSqr(ds[i1])))]

\* diag[i] = pow(dxs[i], 2); temp = diag[i] / det
pml_detJ_inv_JT_J(xv) ==
    LET ds == pml_function(xv)
        det == DetLoop(ds, 0, COne)
    IN  [i1 \in 1..dim |-> CDiv(CSqr(ds[i1]), det)]

\* M.SetSize(dim); M = 0.0; M(i, i) = diag(i)
DiagMatrix(diag) ==
    [i1 \in 1..Len(diag) |-> [j1 \in 1..Len(diag) |-> IF i1 = j1 THEN diag[i1] ELSE Q(0)]]

pml_detJ_JT_J_inv_Re(xv) ==
    LET temp == pml_detJ_JT_J_inv(xv)
    IN  DiagMatrix([i1 \in 1..dim |-> temp[i1].re])

pml_detJ_JT_J_inv_Im(xv) ==
    LET temp == pml_detJ_JT_J_inv(xv)
    IN  DiagMatrix([i1 \in 1..dim |-> temp[i1].im])

pml_detJ_inv_JT_J_Re(xv) ==
    LET temp == pml_detJ_inv_JT_J(xv)
    IN  DiagMatrix([i1 \in 1..dim |-> temp[i1].re])

pml_detJ_inv_JT_J_Im(xv) ==
    LET temp == pml_detJ_inv_JT_J(xv)
    IN  DiagMatrix([i1 \in 1..dim |-> temp[i1].im])

(***************************************************************************)
(* main, lines 231-259: the coefficients and the sesquilinear form         *)
(***************************************************************************)
\* ConstantCoefficient muinv(1.0)
muinv == Q(1)

\* ConstantCoefficient sigma(-pow(omega, 2))
sigma == QNeg(QPow(Q(omega), 2))

\* ScalarMatrixProductCoefficient: the matrix times the scalar, entry by entry
ScalarMatrixProduct(s, M) ==
    [i1 \in 1..Len(M) |-> [j1 \in 1..Len(M[i1]) |-> QMul(s, M[i1][j1])]]

det_inv_Re(xv) == pml_detJ_inv_Re(xv)

det_inv_Im(xv) == pml_detJ_inv_Im(xv)

\* variant of temp_c1_Re: built from the other tensor callable
temp_c1_Re_Swapped(xv) == pml_detJ_JT_J_inv_Re(xv)

temp_c1_Re(xv) == pml_detJ_inv_JT_J_Re(xv)

temp_c1_Im(xv) == pml_detJ_inv_JT_J_Im(xv)

temp_c2_Re(xv) == pml_detJ_JT_J_inv_Re(xv)

temp_c2_Im(xv) == pml_detJ_JT_J_inv_Im(xv)

pml_c1_Re(xv) == ScalarMatrixProduct(muinv, temp_c1_Re(xv))

pml_c1_Im(xv) == ScalarMatrixProduct(muinv, temp_c1_Im(xv))

pml_c2_Re(xv) == ScalarMatrixProduct(sigma, temp_c2_Re(xv))

pml_c2_Im(xv) == ScalarMatrixProduct(sigma, temp_c2_Im(xv))

\* Coefficient::Eval of the coefficient object of that name at x
CoefEval(name, xv) ==
    CASE name = "det_inv_Re" -> det_inv_Re(xv)
      [] name = "det_inv_Im" -> det_inv_Im(xv)
      [] name = "pml_c1_Re" -> pml_c1_Re(xv)
      [] name = "pml_c1_Im" -> pml_c1_Im(xv)
      [] name = "pml_c2_Re" -> pml_c2_Re(xv)
      [] name = "pml_c2_Im" -> pml_c2_Im(xv)

\* the integrator added first: curl-curl, by dimension
CurlCurlTerm ==
    IF dim = 3
    THEN [integ |-> "CurlCurlIntegrator", re |-> "pml_c1_Re", im |-> "pml_c1_Im"]
    ELSE [integ |-> "CurlCurlIntegrator", re |-> "det_inv_Re", im |-> "det_inv_Im"]

\* the integrator added second: mass
MassTerm == [integ |-> "VectorFEMassIntegrator", re |-> "pml_c2_Re", im |-> "pml_c2_Im"]

\* main, lines 245-258: the two a.AddDomainIntegrator calls
AddDomainIntegrators ==
    /\ pc = "configured"
    /\ a_integ' = <<CurlCurlTerm, MassTerm>>
    /\ pc' = "forms"
    /\ UNCHANGED <<prob, dim, omega, box, level, domain_bdr, pml_lngth, comp_domain_bdr,
                   oob, elems_pml, x, dxs, taken, coefs, E_Re, E_Im>>
    /\ UNCHANGED mainVars

\* the coordinates a mesh point can have on axis i: the eighths of the extent
AxisGrid(i) ==
    {At2(domain_bdr, i, 0) + k * ((At2(domain_bdr, i, 1) - At2(domain_bdr, i, 0)) \div 8) :
        k \in 0..8}

GridPoints ==
    IF dim = 2 THEN {<<p0, p1>> : p0 \in AxisGrid(0), p1 \in AxisGrid(1)}
    ELSE {<<p0, p1, p2>> : p0 \in AxisGrid(0), p1 \in AxisGrid(1), p2 \in AxisGrid(2)}

\* the point with coordinates xv, exactly
Exact(xv) == [i1 \in 1..Len(xv) |-> <<xv[i1], 0>>]

\* main, line 259: a.Assemble() evaluates the coefficients of every integrator
\* at a quadrature point x; the callables run pml_function(x, dxs)
Assemble ==
    /\ pc = "forms"
    /\ \E xv \in GridPoints :
         /\ x' = Exact(xv)
         /\ dxs' = pml_function(xv)
         /\ taken' = BranchesTaken(xv)
         /\ coefs' = [k \in 1..Len(a_integ) |->
                        [integ |-> a_integ[k].integ,
                         re |-> CoefEval(a_integ[k].re, xv),
                         im |-> CoefEval(a_integ[k].im, xv)]]
    /\ pc' = "assemble"
    /\ UNCHANGED <<prob, dim, omega, box, level, domain_bdr, pml_lngth, comp_domain_bdr,
                   oob, elems_pml, a_integ, E_Re, E_Im>>
    /\ UNCHANGED mainVars

(***************************************************************************)
(* maxwell_ess_data, E_bdr_data_Re, E_bdr_data_Im.  The closed forms are   *)
(* transcendental; their values are kept symbolic: [tag, comp, at] is      *)
(* component comp of the closed form tag evaluated at the point at.        *)
(***************************************************************************)
CSymZero == [tag |-> "zero", comp |-> 0, at |-> <<>>]

CSymOne == [tag |-> "one", comp |-> 0, at |-> <<>>]

RZero == [tag |-> "zero", part |-> "-", comp |-> 0, at |-> <<>>]

ROne == [tag |-> "one", part |-> "-", comp |-> 0, at |-> <<>>]

\* Eval[i].real()
RealPart(z) ==
    IF z.tag = "zero" THEN RZero
    ELSE IF z.tag = "one" THEN ROne
    ELSE [tag |-> z.tag, part |-> "Re", comp |-> z.comp, at |-> z.at]

\* Eval[i].imag()
ImagPart(z) ==
    IF z.tag \in {"zero", "one"} THEN RZero
    ELSE [tag |-> z.tag, part |-> "Im", comp |-> z.comp, at |-> z.at]

\* E = 0.0
ZeroVector == [i1 \in 1..dim |-> RZero]

\* x(2): the third coordinate, or, for a 2-D point, whatever lies behind it
X2(xb, behind) == IF Len(xb) >= 3 THEN At(xb, 2) ELSE <<behind, 0>>

\* r = 0 in the scatter branch: x(i) + shift(i) = 0 on every axis
AtCentre(xb) ==
    \A i \in 0..(dim - 1) :
        /\ 2 * At(xb, i)[1] = At2(domain_bdr, i, 0) + At2(domain_bdr, i, 1)
        /\ At(xb, i)[2] = 0

\* the scatter branch where r = 0: r_x = x0 / r, r_xx = (1.0 / r) * (1.0 - r_x * r_x),
\* r_yx = -(r_y / r) * r_x, r_zx = -(r_z / r) * r_x; the factor that enters E[i]
RadialTerm(i) ==
    LET r    == Q(0)
        r_x  == QDiv(Q(0), r)
        r_i  == QDiv(Q(0), r)
    IN  IF i = 0 THEN QMul(QDiv(Q(1), r), QSub(Q(1), QMul(r_x, r_x)))
        ELSE QNeg(QMul(QDiv(r_i, r), r_x))

\* variant of ScatterValue: the source point is given the value zero
ScatterValue_Guarded(xb, i) ==
    IF AtCentre(xb) THEN CSymZero ELSE [tag |-> "Green", comp |-> i, at |-> xb]

\* E[i] of the scatter branch: the closed form, which no test keeps from r = 0
ScatterValue(xb, i) ==
    IF AtCentre(xb) /\ ~QFinite(RadialTerm(i))
    THEN [tag |-> "NonFinite", comp |-> i, at |-> xb]
    ELSE [tag |-> "Green", comp |-> i, at |-> xb]

\* in the waveguide branch sin(M_PI * x(2)) is zero at x(2) = 0.0 and nowhere
\* else on the points drawn
maxwell_ess_data(xb, behind) ==
    IF prob = "waveguide"
    THEN [i1 \in 1..dim |->
            IF i1 - 1 = 1 /\ X2(xb, behind) # <<0, 0>>
            THEN [tag |-> "T10", comp |-> 1, at |-> <<At(xb, 0), X2(xb, behind)>>]
            ELSE CSymZero]
    ELSE IF prob = "cyl_waveguide"
    THEN [i1 \in 1..dim |->
            IF i1 - 1 \in {0, 1} /\ X2(xb, behind) = <<0, 0>> THEN CSymOne ELSE CSymZero]
    ELSE IF prob = "scatter"
    THEN [i1 \in 1..dim |-> ScatterValue(xb, i1 - 1)]
    ELSE [i1 \in 1..dim |-> CSymZero]

\* abs(x(i) - b) < 1e-13
Near(xi, b) == xi[1] - b = 0 /\ Abs(xi[2]) < Tol

\* variant of InPmlLoop: only the upper face of each axis is tested
RECURSIVE InPmlLoop_OnlyMax(_, _)
InPmlLoop_OnlyMax(xb, i) ==
    IF i >= dim THEN FALSE
    ELSE IF Near(At(xb, i), At2(domain_bdr, i, 1)) THEN TRUE
    ELSE InPmlLoop_OnlyMax(xb, i + 1)

\* the loop of the scatter branch: in_pml, with its break
RECURSIVE InPmlLoop(_, _)
InPmlLoop(xb, i) ==
    IF i >= dim THEN FALSE
    ELSE IF Near(At(xb, i), At2(domain_bdr, i, 0)) \/ Near(At(xb, i), At2(domain_bdr, i, 1))
    THEN TRUE
    ELSE InPmlLoop(xb, i + 1)

E_bdr_data_Re(xb, behind) ==
    LET Eval == maxwell_ess_data(xb, behind)
        E1 == [i1 \in 1..dim |-> RealPart(Eval[i1])]
    IN  IF prob = "scatter"
        THEN (IF ~InPmlLoop(xb, 0) THEN E1 ELSE ZeroVector)
        ELSE IF prob = "waveguide"
        THEN (IF Near(At(xb, 0), At2(domain_bdr, 0, 1)) THEN ZeroVector ELSE E1)
        ELSE IF prob = "cyl_waveguide" THEN E1
        ELSE ZeroVector

\* variant of E_bdr_data_Im: the waveguide override tests the near face
E_bdr_data_Im_NearFace(xb, behind) ==
    LET Eval == maxwell_ess_data(xb, behind)
        E1 == [i1 \in 1..dim |-> ImagPart(Eval[i1])]
    IN  IF prob = "scatter"
        THEN (IF ~InPmlLoop(xb, 0) THEN E1 ELSE ZeroVector)
        ELSE IF prob = "waveguide"
        THEN (IF Near(At(xb, 0), At2(domain_bdr, 0, 0)) THEN ZeroVector ELSE E1)
        ELSE IF prob = "cyl_waveguide" THEN E1
        ELSE ZeroVector

E_bdr_data_Im(xb, behind) ==
    LET Eval == maxwell_ess_data(xb, behind)
        E1 == [i1 \in 1..dim |-> ImagPart(Eval[i1])]
    IN  IF prob = "scatter"
        THEN (IF ~InPmlLoop(xb, 0) THEN E1 ELSE ZeroVector)
        ELSE IF prob = "waveguide"
        THEN (IF Near(At(xb, 0), At2(domain_bdr, 0, 1)) THEN ZeroVector ELSE E1)
        ELSE IF prob = "cyl_waveguide" THEN E1
        ELSE ZeroVector

\* the coordinates drawn for a boundary-data point on axis i: the two ends of
\* the extent, each moved by up to the tolerance, and the middle
BdrAxis(i) ==
    {<<g, o>> : g \in {At2(domain_bdr, i, 0), At2(domain_bdr, i, 1)}, o \in (-Tol)..Tol}
    \cup {<<At2(domain_bdr, i, 0) + (At2(domain_bdr, i, 1) - At2(domain_bdr, i, 0)) \div 2, 0>>}

BdrPoints ==
    IF dim = 2 THEN {<<p0, p1>> : p0 \in BdrAxis(0), p1 \in BdrAxis(1)}
    ELSE {<<p0, p1, p2>> : p0 \in BdrAxis(0), p1 \in BdrAxis(1), p2 \in BdrAxis(2)}

\* main, lines 224-226 and 287: the projections call E_bdr_data_Re and
\* E_bdr_data_Im at a point x
ProjectBdrCoefficient ==
    /\ pc = "configured"
    /\ \E xb \in BdrPoints,
          behind \in (IF dim = 2 /\ prob \in {"waveguide", "cyl_waveguide"}
                      THEN Garbage ELSE {0}) :
         /\ x' = xb
         /\ E_Re' = E_bdr_data_Re(xb, behind)
         /\ E_Im' = E_bdr_data_Im(xb, behind)
    /\ pc' = "project"
    /\ UNCHANGED <<prob, dim, omega, box, level, domain_bdr, pml_lngth, comp_domain_bdr,
                   oob, elems_pml, a_integ, dxs, taken, coefs>>
    /\ UNCHANGED mainVars

Next ==
    \/ compute_pml_mesh_data
    \/ UniformRefinement
    \/ compute_pml_elem_list
    \/ ProjectBdrCoefficient
    \/ AddDomainIntegrators
    \/ Assemble

Spec == Init /\ [][Next]_vars

(***************************************************************************)
(* main as written, statement by statement.  pc names the statement main   *)
(* is about to execute.  The arguments and results of a callable (x, dxs,  *)
(* taken, coefs, E_Re, E_Im, f_im) live for the step that makes the call.  *)
(***************************************************************************)
\* the statements of main in source order
MainOrder ==
    << "m_parse", "m_omega", "m_prob_scatter", "m_prob_load_src", "m_mesh",
       "m_dimension", "m_mesh_data", "m_refine_serial", "m_par_mesh", "m_refine_par",
       "m_elem_list", "m_fespace", "m_linear_form", "m_b_assemble",
       "m_grid_function", "m_project", "m_coefficients", "m_a_assemble", "m_form_system", "m_system_matrix",
       "m_solve", "m_recover", "m_project_exact", "m_error", "m_visualize",
       "m_cleanup", "m_done" >>

\* the statement that follows statement l in the text of main
Following(l) ==
    MainOrder[(CHOOSE k \in 1..(Len(MainOrder) - 1) : MainOrder[k] = l) + 1]

\* variant of After: the recovery is placed before the solve
After_RecoverFirst(l) ==
    IF l = "m_system_matrix" THEN "m_recover"
    ELSE IF l = "m_recover" THEN "m_solve"
    ELSE IF l = "m_solve" THEN "m_project_exact"
    ELSE Following(l)

\* main is straight-line code: control passes to the following statement
After(l) == Following(l)

\* omega = 2.0 * M_PI * freq, in the units of Omegas
TwoPiFreq(f) == 5 * f

\* the values of -rs and -rp drawn
RefLevels == {0, 1}

\* the meshes a mesh file can hold: one box per dimension
MeshFiles == {[i \in 1..d |-> Interval(MaxExt)] : d \in {2, 3}}

\* Mesh(8, 1, 1, Element::HEXAHEDRON, true, 8, 1, 1, false)
WaveguideMesh == << <<0, 8>>, <<0, 1>>, <<0, 1>> >>

\* no callable is running: its arguments and results do not exist
NoCall ==
    /\ x' = <<>>
    /\ dxs' = <<>>
    /\ taken' = <<>>
    /\ coefs' = <<>>
    /\ E_Re' = <<>>
    /\ E_Im' = <<>>
    /\ f_im' = <<>>

\* the file-scope variables and main's locals before main's first statement
MainInit ==
    /\ pc = "m_parse"
    /\ prob = "scatter"
    /\ dim = 0
    /\ omega = 0
    /\ box \in MeshFiles
    /\ level = 0
    /\ domain_bdr = <<>>
    /\ pml_lngth = <<>>
    /\ comp_domain_bdr = <<>>
    /\ oob = FALSE
    /\ elems_pml = <<>>
    /\ a_integ = <<>>
    /\ x = <<>>
    /\ dxs = <<>>
    /\ taken = <<>>
    /\ coefs = <<>>
    /\ E_Re = <<>>
    /\ E_Im = <<>>
    /\ args \in [freq : 1..MaxFreq, ref_levels : RefLevels, par_ref_levels : RefLevels]
    /\ log = <<>>
    /\ b_integ = <<>>
    /\ f_im = <<>>

\* lines 94-109: args.Parse(); if (!args.Good()) { ...; return 1; }
M_Parse ==
    /\ pc = "m_parse"
    /\ \E good \in BOOLEAN : pc' = IF good THEN After(pc) ELSE "m_usage"
    /\ NoCall
    /\ UNCHANGED <<prob, dim, omega, box, level, domain_bdr, pml_lngth, comp_domain_bdr,
                   oob, elems_pml, a_integ, args, log, b_integ>>

\* line 110: omega = 2.0 * M_PI * freq
M_SetOmega ==
    /\ pc = "m_omega"
    /\ omega' = TwoPiFreq(args.freq)
    /\ pc' = After(pc)
    /\ NoCall
    /\ UNCHANGED <<prob, dim, box, level, domain_bdr, pml_lngth, comp_domain_bdr,
                   oob, elems_pml, a_integ, args, log, b_integ>>

\* line 117: prob = scatter
M_ProbScatter ==
    /\ pc = "m_prob_scatter"
    /\ prob' = "scatter"
    /\ pc' = After(pc)
    /\ NoCall
    /\ UNCHANGED <<dim, omega, box, level, domain_bdr, pml_lngth, comp_domain_bdr,
                   oob, elems_pml, a_integ, args, log, b_integ>>

\* line 120: prob = load_src
M_ProbLoadSrc ==
    /\ pc = "m_prob_load_src"
    /\ prob' = "load_src"
    /\ pc' = After(pc)
    /\ NoCall
    /\ UNCHANGED <<dim, omega, box, level, domain_bdr, pml_lngth, comp_domain_bdr,
                   oob, elems_pml, a_integ, args, log, b_integ>>

\* lines 122-144: the mesh is read from the mesh file, or built for the
\* waveguide; a file that cannot be read ends the run
M_ReadMesh ==
    /\ pc = "m_mesh"
    /\ \/ /\ box' = IF prob = "waveguide" THEN WaveguideMesh ELSE box
          /\ pc' = After(pc)
       \/ /\ prob # "waveguide"
          /\ box' = box
          /\ pc' = "m_aborted"
    /\ NoCall
    /\ UNCHANGED <<prob, dim, omega, level, domain_bdr, pml_lngth, comp_domain_bdr,
                   oob, elems_pml, a_integ, args, log, b_integ>>

\* line 146: dim = mesh->Dimension()
M_Dimension ==
    /\ pc = "m_dimension"
    /\ dim' = Len(box)
    /\ pc' = After(pc)
    /\ NoCall
    /\ UNCHANGED <<prob, omega, box, level, domain_bdr, pml_lngth, comp_domain_bdr,
                   oob, elems_pml, a_integ, args, log, b_integ>>

\* line 147: compute_pml_mesh_data(mesh)
M_compute_pml_mesh_data ==
    /\ pc = "m_mesh_data"
    /\ \E fill \in Garbage, zg \in (IF dim = 3 THEN {<<0, 0>>} ELSE ZGarbage) :
         LET r == MeshData(prob, box, dim, level, fill, zg)
         IN  /\ domain_bdr' = r.db
             /\ pml_lngth' = r.pl
             /\ comp_domain_bdr' = r.cd
             /\ oob' = r.oob
             /\ \/ pc' = After(pc)
                \/ r.oob /\ pc' = "m_aborted"
    /\ NoCall
    /\ UNCHANGED <<prob, dim, omega, box, level, elems_pml, a_integ, args, log, b_integ>>

\* lines 158-161: for (l < ref_levels) mesh->UniformRefinement()
M_SerialRefinement ==
    /\ pc = "m_refine_serial"
    /\ IF level < args.ref_levels
       THEN level' = level + 1 /\ pc' = pc
       ELSE level' = level /\ pc' = After(pc)
    /\ NoCall
    /\ UNCHANGED <<prob, dim, omega, box, domain_bdr, pml_lngth, comp_domain_bdr,
                   oob, elems_pml, a_integ, args, log, b_integ>>

\* lines 167-168: the parallel mesh is made of the serial one
M_ParMesh ==
    /\ pc = "m_par_mesh"
    /\ pc' = After(pc)
    /\ NoCall
    /\ UNCHANGED <<prob, dim, omega, box, level, domain_bdr, pml_lngth, comp_domain_bdr,
                   oob, elems_pml, a_integ, args, log, b_integ>>

\* lines 170-173: for (l < par_ref_levels) pmesh->UniformRefinement()
M_ParallelRefinement ==
    /\ pc = "m_refine_par"
    /\ IF level < args.ref_levels + args.par_ref_levels
       THEN level' = level + 1 /\ pc' = pc
       ELSE level' = level /\ pc' = After(pc)
    /\ NoCall
    /\ UNCHANGED <<prob, dim, omega, box, domain_bdr, pml_lngth, comp_domain_bdr,
                   oob, elems_pml, a_integ, args, log, b_integ>>

\* the half of the mesh a process owns after partitioning
LocalBox == [i1 \in 1..Len(box) |->
                IF i1 = 1 THEN <<Lo(box, 0), Lo(box, 0) + (Hi(box, 0) - Lo(box, 0)) \div 2>>
                ELSE box[i1]]

\* variant of M_compute_pml_elem_list: the layer data are derived again, from
\* the local part of the partitioned mesh
M_compute_pml_elem_list_Rederive ==
    /\ pc = "m_elem_list"
    /\ LET r == MeshData(prob, LocalBox, dim, 0, 0, <<0, 0>>)
       IN  /\ domain_bdr' = r.db
           /\ pml_lngth' = r.pl
           /\ comp_domain_bdr' = r.cd
    /\ elems_pml' = [i1 \in 1..GetNE(dim, level) |-> ElemFlag(i1 - 1)]
    /\ pc' = After(pc)
    /\ NoCall
    /\ UNCHANGED <<prob, dim, omega, box, level, oob, a_integ, args, log, b_integ>>

\* lines 177-178: compute_pml_elem_list(pmesh, elems_pml)
M_compute_pml_elem_list ==
    /\ pc = "m_elem_list"
    /\ elems_pml' = [i1 \in 1..GetNE(dim, level) |-> ElemFlag(i1 - 1)]
    /\ pc' = After(pc)
    /\ NoCall
    /\ UNCHANGED <<prob, dim, omega, box, level, domain_bdr, pml_lngth, comp_domain_bdr,
                   oob, a_integ, args, log, b_integ>>

\* lines 182-200: the finite element space and the essential dofs; a failure
\* of the construction ends the run
M_FESpace ==
    /\ pc = "m_fespace"
    /\ \/ pc' = After(pc)
       \/ pc' = "m_aborted"
    /\ NoCall
    /\ UNCHANGED <<prob, dim, omega, box, level, domain_bdr, pml_lngth, comp_domain_bdr,
                   oob, elems_pml, a_integ, args, log, b_integ>>

\* variant of LinearFormIntegrators: the source is added in every variant
LinearFormIntegrators_Always(p) ==
    << [integ |-> "VectorFEDomainLFIntegrator", re |-> "NULL", im |-> "f_Im"] >>

\* if (prob == load_src) b.AddDomainIntegrator(NULL, new VectorFEDomainLFIntegrator(f_Im))
LinearFormIntegrators(p) ==
    IF p = "load_src"
    THEN << [integ |-> "VectorFEDomainLFIntegrator", re |-> "NULL", im |-> "f_Im"] >>
    ELSE <<>>

\* lines 208-215: the linear form and its integrators
M_LinearForm ==
    /\ pc = "m_linear_form"
    /\ b_integ' = LinearFormIntegrators(prob)
    /\ pc' = After(pc)
    /\ NoCall
    /\ UNCHANGED <<prob, dim, omega, box, level, domain_bdr, pml_lngth, comp_domain_bdr,
                   oob, elems_pml, a_integ, args, log>>

\* what a component of a Vector that was sized and never written holds
Unwritten(fill, i) ==
    IF fill = 0 THEN RZero ELSE [tag |-> "unwritten", part |-> "-", comp |-> i, at |-> <<>>]

\* source_im(x, f_im): only f_im[0] is assigned
source_im(xv, fill) ==
    [i1 \in 1..dim |->
        IF i1 = 1 THEN [tag |-> "Gauss", part |-> "-", comp |-> 0, at |-> xv]
        ELSE Unwritten(fill, i1 - 1)]

\* line 216: b.Assemble() evaluates the coefficient of every integrator of
\* the linear form at a quadrature point x
M_BAssemble ==
    /\ pc = "m_b_assemble"
    /\ log' = Append(log, "b.Assemble")
    /\ IF b_integ = <<>> THEN x' = <<>> /\ f_im' = <<>>
       ELSE \E xv \in GridPoints, fill \in Garbage :
                /\ x' = Exact(xv)
                /\ f_im' = source_im(xv, fill)
    /\ dxs' = <<>> /\ taken' = <<>> /\ coefs' = <<>> /\ E_Re' = <<>> /\ E_Im' = <<>>
    /\ pc' = After(pc)
    /\ UNCHANGED <<prob, dim, omega, box, level, domain_bdr, pml_lngth, comp_domain_bdr,
                   oob, elems_pml, a_integ, args, b_integ>>

\* lines 223-225: the grid function x and the coefficients E_Re and E_Im
M_GridFunction ==
    /\ pc = "m_grid_function"
    /\ pc' = After(pc)
    /\ NoCall
    /\ UNCHANGED <<prob, dim, omega, box, level, domain_bdr, pml_lngth, comp_domain_bdr,
                   oob, elems_pml, a_integ, args, log, b_integ>>

\* line 226: x.ProjectBdrCoefficientTangent(E_Re, E_Im, ess_bdr) calls
\* E_bdr_data_Re and E_bdr_data_Im at a point x
M_ProjectBdrCoefficient ==
    /\ pc = "m_project"
    /\ \E xb \in BdrPoints,
          behind \in (IF dim = 2 /\ prob \in {"waveguide", "cyl_waveguide"}
                      THEN Garbage ELSE {0}) :
         /\ x' = xb
         /\ E_Re' = E_bdr_data_Re(xb, behind)
         /\ E_Im' = E_bdr_data_Im(xb, behind)
    /\ dxs' = <<>> /\ taken' = <<>> /\ coefs' = <<>> /\ f_im' = <<>>
    /\ pc' = After(pc)
    /\ UNCHANGED <<prob, dim, omega, box, level, domain_bdr, pml_lngth, comp_domain_bdr,
                   oob, elems_pml, a_integ, args, log, b_integ>>

\* lines 231-258: the coefficients and the integrators of the sesquilinear form
M_AddDomainIntegrators ==
    /\ pc = "m_coefficients"
    /\ a_integ' = <<CurlCurlTerm, MassTerm>>
    /\ pc' = After(pc)
    /\ NoCall
    /\ UNCHANGED <<prob, dim, omega, box, level, domain_bdr, pml_lngth, comp_domain_bdr,
                   oob, elems_pml, args, log, b_integ>>

\* line 259: a.Assemble()
M_Assemble ==
    /\ pc = "m_a_assemble"
    /\ log' = Append(log, "a.Assemble")
    /\ \E xv \in GridPoints :
         /\ x' = Exact(xv)
         /\ dxs' = pml_function(xv)
         /\ taken' = BranchesTaken(xv)
         /\ coefs' = [k \in 1..Len(a_integ) |->
                        [integ |-> a_integ[k].integ,
                         re |-> CoefEval(a_integ[k].re, xv),
                         im |-> CoefEval(a_integ[k].im, xv)]]
    /\ E_Re' = <<>> /\ E_Im' = <<>> /\ f_im' = <<>>
    /\ pc' = After(pc)
    /\ UNCHANGED <<prob, dim, omega, box, level, domain_bdr, pml_lngth, comp_domain_bdr,
                   oob, elems_pml, a_integ, args, b_integ>>

\* line 263: a.FormLinearSystem(ess_tdof_list, x, b, Ah, X, B)
M_FormLinearSystem ==
    /\ pc = "m_form_system"
    /\ log' = Append(log, "FormLinearSystem")
    /\ pc' = After(pc)
    /\ NoCall
    /\ UNCHANGED <<prob, dim, omega, box, level, domain_bdr, pml_lngth, comp_domain_bdr,
                   oob, elems_pml, a_integ, args, b_integ>>

\* line 266: Ah.As<ComplexHypreParMatrix>()->GetSystemMatrix()
M_GetSystemMatrix ==
    /\ pc = "m_system_matrix"
    /\ log' = Append(log, "GetSystemMatrix")
    /\ pc' = After(pc)
    /\ NoCall
    /\ UNCHANGED <<prob, dim, omega, box, level, domain_bdr, pml_lngth, comp_domain_bdr,
                   oob, elems_pml, a_integ, args, b_integ>>

\* lines 274-280: superlu->Mult(B, X); a matrix that cannot be factorized
\* ends the run
M_Solve ==
    /\ pc = "m_solve"
    /\ log' = Append(log, "SuperLUSolver::Mult")
    /\ \/ pc' = After(pc)
       \/ pc' = "m_aborted"
    /\ NoCall
    /\ UNCHANGED <<prob, dim, omega, box, level, domain_bdr, pml_lngth, comp_domain_bdr,
                   oob, elems_pml, a_integ, args, b_integ>>

\* line 284: a.RecoverFEMSolution(X, b, x)
M_RecoverFEMSolution ==
    /\ pc = "m_recover"
    /\ log' = Append(log, "RecoverFEMSolution")
    /\ pc' = After(pc)
    /\ NoCall
    /\ UNCHANGED <<prob, dim, omega, box, level, domain_bdr, pml_lngth, comp_domain_bdr,
                   oob, elems_pml, a_integ, args, b_integ>>

\* lines 286-287: x_gf.ProjectCoefficient(E_Re, E_Im)
M_ProjectCoefficient ==
    /\ pc = "m_project_exact"
    /\ \E xb \in BdrPoints,
          behind \in (IF dim = 2 /\ prob \in {"waveguide", "cyl_waveguide"}
                      THEN Garbage ELSE {0}) :
         /\ x' = xb
         /\ E_Re' = E_bdr_data_Re(xb, behind)
         /\ E_Im' = E_bdr_data_Im(xb, behind)
    /\ dxs' = <<>> /\ taken' = <<>> /\ coefs' = <<>> /\ f_im' = <<>>
    /\ pc' = After(pc)
    /\ UNCHANGED <<prob, dim, omega, box, level, domain_bdr, pml_lngth, comp_domain_bdr,
                   oob, elems_pml, a_integ, args, log, b_integ>>

\* lines 290-316: if (prob == scatter || prob == waveguide) the L2 errors
M_ErrorBlock ==
    /\ pc = "m_error"
    /\ log' = IF prob \in {"scatter", "waveguide"} THEN Append(log, "ComputeL2Error")
              ELSE log
    /\ pc' = After(pc)
    /\ NoCall
    /\ UNCHANGED <<prob, dim, omega, box, level, domain_bdr, pml_lngth, comp_domain_bdr,
                   oob, elems_pml, a_integ, args, b_integ>>

\* lines 319-413: if (visualization) the fields are sent to GLVis
M_Visualize ==
    /\ pc = "m_visualize"
    /\ \E visualization \in BOOLEAN :
         log' = IF visualization THEN Append(log, "GLVis") ELSE log
    /\ pc' = After(pc)
    /\ NoCall
    /\ UNCHANGED <<prob, dim, omega, box, level, domain_bdr, pml_lngth, comp_domain_bdr,
                   oob, elems_pml, a_integ, args, b_integ>>

\* lines 418-423: the memory is freed, MPI_Finalize(), return 0
M_Finalize ==
    /\ pc = "m_cleanup"
    /\ pc' = After(pc)
    /\ NoCall
    /\ UNCHANGED <<prob, dim, omega, box, level, domain_bdr, pml_lngth, comp_domain_bdr,
                   oob, elems_pml, a_integ, args, log, b_integ>>

MainNext ==
    \/ M_Parse
    \/ M_SetOmega
    \/ M_ProbScatter
    \/ M_ProbLoadSrc
    \/ M_ReadMesh
    \/ M_Dimension
    \/ M_compute_pml_mesh_data
    \/ M_SerialRefinement
    \/ M_ParMesh
    \/ M_ParallelRefinement
    \/ M_compute_pml_elem_list
    \/ M_FESpace
    \/ M_LinearForm
    \/ M_BAssemble
    \/ M_GridFunction
    \/ M_ProjectBdrCoefficient
    \/ M_AddDomainIntegrators
    \/ M_Assemble
    \/ M_FormLinearSystem
    \/ M_GetSystemMatrix
    \/ M_Solve
    \/ M_RecoverFEMSolution
    \/ M_ProjectCoefficient
    \/ M_ErrorBlock
    \/ M_Visualize
    \/ M_Finalize

MainSpec == MainInit /\ [][MainNext]_vars

(***************************************************************************)
(* Properties.                                                             *)
(***************************************************************************)
Axes == 0..(dim - 1)

\* compute_pml_mesh_data has returned (or stopped)
Configured == pc # "mesh_data"

Extent(i) == At2(domain_bdr, i, 1) - At2(domain_bdr, i, 0)

\* C1: after compute_pml_mesh_data, in every variant and on every axis i < dim,
\* comp_domain_bdr(i,0) = domain_bdr(i,0) + pml_lngth(i,0) and
\* comp_domain_bdr(i,1) = domain_bdr(i,1) - pml_lngth(i,1).
C1_CompBoxInvariant ==
    Configured =>
        \A i \in Axes :
            /\ At2(comp_domain_bdr, i, 0) = At2(domain_bdr, i, 0) + At2(pml_lngth, i, 0)
            /\ At2(comp_domain_bdr, i, 1) = At2(domain_bdr, i, 1) - At2(pml_lngth, i, 1)

\* C2: in the scatter and load_src variants every axis has a layer on both
\* sides, each a quarter of the axis's extent, and the computational box is
\* the middle half of the domain box.
C2_ScatterLayers ==
    (Configured /\ prob \in {"scatter", "load_src"}) =>
        \A i \in Axes :
            /\ 4 * At2(pml_lngth, i, 0) = Extent(i)
            /\ 4 * At2(pml_lngth, i, 1) = Extent(i)
            /\ 4 * (At2(comp_domain_bdr, i, 0) - At2(domain_bdr, i, 0)) = Extent(i)
            /\ 4 * (At2(domain_bdr, i, 1) - At2(comp_domain_bdr, i, 1)) = Extent(i)
            /\ 2 * (At2(comp_domain_bdr, i, 1) - At2(comp_domain_bdr, i, 0)) = Extent(i)

\* the square [0,8]^2 gets the computational box [2,6]^2
C2_Witness ==
    /\ pc = "configured"
    /\ prob = "scatter"
    /\ dim = 2
    /\ \A i \in Axes : domain_bdr[i + 1] = <<0, 8>>
    /\ comp_domain_bdr = << <<2, 6>>, <<2, 6>> >>
    /\ pml_lngth = << <<2, 2>>, <<2, 2>> >>

\* C3: in the waveguide variant only the high side of axis 0 has a layer, a
\* quarter of the extent of axis 0; every other layer width is zero and there
\* the computational box bound is the domain box bound.
C3_WaveguideLayers ==
    (Configured /\ prob = "waveguide") =>
        /\ 4 * At2(pml_lngth, 0, 1) = Extent(0)
        /\ At2(comp_domain_bdr, 0, 1) = At2(domain_bdr, 0, 1) - At2(pml_lngth, 0, 1)
        /\ \A i \in Axes : \A j \in {0, 1} :
             <<i, j>> # <<0, 1>> =>
                /\ At2(pml_lngth, i, j) = 0
                /\ At2(comp_domain_bdr, i, j) = At2(domain_bdr, i, j)

\* C4: in the cyl_waveguide variant only the high side of the last axis
\* (dim - 1) has a layer, an eighth of that axis's extent; every other layer
\* width is zero, and every index written is inside the dim x 2 arrays.
C4_CylLayers ==
    (Configured /\ prob = "cyl_waveguide") =>
        /\ ~oob
        /\ 8 * At2(pml_lngth, dim - 1, 1) = Extent(dim - 1)
        /\ \A i \in Axes : \A j \in {0, 1} :
             <<i, j>> # <<dim - 1, 1>> => At2(pml_lngth, i, j) = 0

\* the vertices of element e (0-based), as a set
VertexSet(e) == {At(GetVertices(dim, level, e), iv) : iv \in 0..(Len(Corners(dim)) - 1)}

\* some vertex of e has some coordinate strictly outside the computational box
SomeVertexOutside(e) ==
    \E v \in VertexSet(e) : \E i \in Axes :
        \/ NodeCoord(box, dim, level, v, i) > At2(comp_domain_bdr, i, 1)
        \/ NodeCoord(box, dim, level, v, i) < At2(comp_domain_bdr, i, 0)

\* some vertex of e lies exactly on the computational box boundary
SomeVertexOnBoundary(e) ==
    \E v \in VertexSet(e) : \E i \in Axes :
        \/ NodeCoord(box, dim, level, v, i) = At2(comp_domain_bdr, i, 1)
        \/ NodeCoord(box, dim, level, v, i) = At2(comp_domain_bdr, i, 0)

\* C5: compute_pml_elem_list gives one flag per element; the flag is 0 (pml)
\* exactly when some vertex has some coordinate strictly outside the
\* computational box, whatever the scan order, and 1 (interior) otherwise.
C5_ElemList ==
    pc = "classified" =>
        /\ Len(elems_pml) = GetNE(dim, level)
        /\ \A e \in 0..(GetNE(dim, level) - 1) :
             /\ At(elems_pml, e) \in {0, 1}
             /\ At(elems_pml, e) = 0 <=> SomeVertexOutside(e)

\* a mesh with an interior element that touches the box boundary and a pml element
C5_Witness ==
    /\ pc = "classified"
    /\ \E e \in 0..(GetNE(dim, level) - 1) :
         At(elems_pml, e) = 1 /\ SomeVertexOnBoundary(e)
    /\ \E e \in 0..(GetNE(dim, level) - 1) : At(elems_pml, e) = 0

\* the coordinate of the evaluation point on axis i (points of Assemble are exact)
XCoord(i) == At(x, i)[1]

StrictlyInside ==
    \A i \in Axes :
        At2(comp_domain_bdr, i, 0) < XCoord(i) /\ XCoord(i) < At2(comp_domain_bdr, i, 1)

\* C6: at a point strictly inside the computational box on every axis,
\* pml_function returns 1 + 0i on every axis.
C6_InsideIsOne ==
    (pc = "assemble" /\ StrictlyInside) => \A i \in Axes : At(dxs, i) = COne

C6_Witness == pc = "assemble" /\ StrictlyInside /\ prob = "scatter" /\ dim = 3

\* C7: with pml_lngth(i,1) = 0, no point of the domain takes the high-side
\* branch on axis i, so the division by pml_lngth(i,1)^n = 0 is never
\* evaluated; the same for pml_lngth(i,0) = 0 and the low-side branch.
C7_ZeroWidthNeverStretches ==
    pc = "assemble" =>
        \A i \in Axes :
            (At2(domain_bdr, i, 0) <= XCoord(i) /\ XCoord(i) <= At2(domain_bdr, i, 1)) =>
                /\ At2(pml_lngth, i, 1) = 0 => ~At(taken, i).hi
                /\ At2(pml_lngth, i, 0) = 0 => ~At(taken, i).lo

\* C8: on every axis at most one of the two stretching branches is taken.
C8_OneSidePerAxis ==
    pc = "assemble" => \A i \in Axes : ~(At(taken, i).hi /\ At(taken, i).lo)

\* a corner point: the high branch on one axis, the low branch on another
C8_Witness ==
    /\ pc = "assemble"
    /\ \E i \in Axes : \E j \in Axes : At(taken, i).hi /\ At(taken, j).lo

\* entry (i, i) of the complex tensor given to integrator k (1-based k)
Entry(k, i) == Cx(coefs[k].re[i + 1][i + 1], coefs[k].im[i + 1][i + 1])

\* the real and imaginary matrices given to integrator k are diagonal
IsDiagonal(k) ==
    \A i \in Axes : \A j \in Axes :
        i # j => coefs[k].re[i + 1][j + 1] = Q(0) /\ coefs[k].im[i + 1][j + 1] = Q(0)

\* det * (1 / dxs[i]^2), from the dxs of the state
DetJ_JT_J_inv(i) == CMul(DetLoop(dxs, 0, COne), CDiv(COne, CSqr(At(dxs, i))))

\* dxs[i]^2 / det, from the dxs of the state
DetJ_inv_JT_J(i) == CDiv(CSqr(At(dxs, i)), DetLoop(dxs, 0, COne))

MinusOmegaSquared == Q(-(omega * omega))

IntegratorsInOrder ==
    /\ Len(coefs) = 2
    /\ coefs[1].integ = "CurlCurlIntegrator"
    /\ coefs[2].integ = "VectorFEMassIntegrator"

\* in 2-D the curl-curl integrator is given the scalar 1 / det
CurlCurlScalar2D ==
    dim = 2 => Cx(coefs[1].re, coefs[1].im) = CDiv(COne, DetLoop(dxs, 0, COne))

\* C9, as stated: in 3-D the curl-curl integrator is given det*(1/dxs[i]^2) and
\* the mass integrator dxs[i]^2/det scaled by -omega^2; in 2-D the curl-curl
\* integrator is given the scalar 1/det.
C9_AsStated ==
    pc = "assemble" =>
        /\ IntegratorsInOrder
        /\ CurlCurlScalar2D
        /\ dim = 3 =>
             /\ IsDiagonal(1) /\ IsDiagonal(2)
             /\ \A i \in Axes :
                  /\ Entry(1, i) = DetJ_JT_J_inv(i)
                  /\ Entry(2, i) = CScale(DetJ_inv_JT_J(i), MinusOmegaSquared)

\* C9, amended: in 3-D the curl-curl integrator is given dxs[i]^2/det and the
\* mass integrator det*(1/dxs[i]^2) scaled by -omega^2; in 2-D the curl-curl
\* integrator is given the scalar 1/det.
C9_Amended ==
    pc = "assemble" =>
        /\ IntegratorsInOrder
        /\ CurlCurlScalar2D
        /\ dim = 3 =>
             /\ IsDiagonal(1) /\ IsDiagonal(2)
             /\ \A i \in Axes :
                  /\ Entry(1, i) = DetJ_inv_JT_J(i)
                  /\ Entry(2, i) = CScale(DetJ_JT_J_inv(i), MinusOmegaSquared)

\* a 3-D point in the layer, where the two tensors differ
C9_Witness ==
    /\ pc = "assemble"
    /\ dim = 3
    /\ \E i \in Axes :
         /\ CFinite(At(dxs, i))
         /\ At(dxs, i) # COne
         /\ DetJ_inv_JT_J(i) # DetJ_JT_J_inv(i)
         /\ Entry(1, i) = DetJ_inv_JT_J(i)

\* x(0) is within 1e-13 of domain_bdr(0, 1)
OnFarFace == At(x, 0)[1] = At2(domain_bdr, 0, 1) /\ Abs(At(x, 0)[2]) < Tol

IsZeroVector(E) == Len(E) = dim /\ \A i \in Axes : At(E, i).tag = "zero"

\* C10: in the waveguide variant, at every point with
\* |x(0) - domain_bdr(0,1)| < 1e-13, E_bdr_data_Re and E_bdr_data_Im return
\* the zero vector.
C10_FarFaceZero ==
    (pc = "project" /\ prob = "waveguide" /\ OnFarFace) =>
        IsZeroVector(E_Re) /\ IsZeroVector(E_Im)

\* a 3-D point half a tolerance before the far face
C10_Witness ==
    /\ pc = "project"
    /\ prob = "waveguide"
    /\ dim = 3
    /\ At(x, 0) = <<At2(domain_bdr, 0, 1), -1>>
    /\ IsZeroVector(E_Re)
    /\ IsZeroVector(E_Im)

(***************************************************************************)
(* C11                                                                     *)
(***************************************************************************)
\* x has, on some axis, a coordinate within the tolerance of a domain bound
OnSomeFace ==
    \E i \in Axes, j \in {0, 1} :
        At(x, i)[1] = At2(domain_bdr, i, j) /\ Abs(At(x, i)[2]) < Tol

\* what a 2-D point can have behind its two coordinates
BehindValues ==
    IF dim = 2 /\ prob \in {"waveguide", "cyl_waveguide"} THEN Garbage ELSE {0}

\* E_Re and E_Im are the real and imaginary parts of maxwell_ess_data(x)
IsExactField ==
    \E behind \in BehindValues :
        /\ E_Re = [i1 \in 1..dim |-> RealPart(maxwell_ess_data(x, behind)[i1])]
        /\ E_Im = [i1 \in 1..dim |-> ImagPart(maxwell_ess_data(x, behind)[i1])]

\* C11 as stated: in the scatter and waveguide variants the boundary data is
\* the zero vector at every point within the tolerance of any domain face, and
\* the parts of maxwell_ess_data(x) at every other point
C11_AsStated ==
    (pc = "project" /\ prob \in {"scatter", "waveguide"})
        => IF OnSomeFace THEN IsZeroVector(E_Re) /\ IsZeroVector(E_Im)
           ELSE IsExactField

\* C11, amended: in the scatter variant the boundary data is the zero vector
\* at every point within the tolerance of any domain face and the parts of
\* maxwell_ess_data(x) elsewhere; in the waveguide variant it is the zero
\* vector on the far face of axis 0 only, and the parts of maxwell_ess_data(x)
\* at every other point, the other domain faces included
C11_Amended ==
    /\ (pc = "project" /\ prob = "scatter")
          => IF OnSomeFace THEN IsZeroVector(E_Re) /\ IsZeroVector(E_Im)
             ELSE IsExactField
    /\ (pc = "project" /\ prob = "waveguide")
          => IF OnFarFace THEN IsZeroVector(E_Re) /\ IsZeroVector(E_Im)
             ELSE IsExactField

\* a waveguide point on a domain face other than the far one keeps the mode
C11_Witness ==
    /\ pc = "project" /\ prob = "waveguide" /\ dim = 3
    /\ OnSomeFace /\ ~OnFarFace
    /\ At(E_Re, 1).tag = "T10" /\ At(E_Im, 1).tag = "T10"

(***************************************************************************)
(* C12                                                                     *)
(***************************************************************************)
\* the coordinates of the quadrature point x, as the callables receive them
XV == [i1 \in 1..Len(x) |-> x[i1][1]]

\* pml_detJ_inv_Re(x) + i * pml_detJ_inv_Im(x)
DetJInvAtX == Cx(pml_detJ_inv_Re(XV), pml_detJ_inv_Im(XV))

\* C12: at every point x, in 2-D and in 3-D, pml_detJ_inv_Re(x) +
\* i*pml_detJ_inv_Im(x) times the product of the factors dxs[i] that
\* pml_function returns at x is 1
C12_DetRoundTrip ==
    pc = "assemble" => CMul(DetJInvAtX, DetLoop(dxs, 0, COne)) = COne

(***************************************************************************)
(* C13                                                                     *)
(***************************************************************************)
\* entry (i, j) of the complex tensor whose parts are the matrices Re and Im
TensorEntry(Re, Im, i, j) == Cx(Re[i + 1][j + 1], Im[i + 1][j + 1])

\* C13: at every point x and for every axis i, the diagonal entry i of the
\* tensor of pml_detJ_JT_J_inv_Re/Im times the diagonal entry i of the tensor
\* of pml_detJ_inv_JT_J_Re/Im is 1, and every off-diagonal entry of both is 0
C13_TensorsReciprocal ==
    pc = "assemble" =>
        LET ARe == pml_detJ_JT_J_inv_Re(XV)
            AIm == pml_detJ_JT_J_inv_Im(XV)
            BRe == pml_detJ_inv_JT_J_Re(XV)
            BIm == pml_detJ_inv_JT_J_Im(XV)
        IN  \A i \in Axes, j \in Axes :
                IF i = j
                THEN CMul(TensorEntry(ARe, AIm, i, i), TensorEntry(BRe, BIm, i, i)) = COne
                ELSE /\ TensorEntry(ARe, AIm, i, j) = Cx(Q(0), Q(0))
                     /\ TensorEntry(BRe, BIm, i, j) = Cx(Q(0), Q(0))

(***************************************************************************)
(* C14                                                                     *)
(***************************************************************************)
\* the distance of x beyond side j of the Computational Box on axis i
Beyond(i, j) ==
    IF j = 1 THEN XCoord(i) - At2(comp_domain_bdr, i, 1)
    ELSE At2(comp_domain_bdr, i, 0) - XCoord(i)

\* 1 + i * (n*c / (omega * width^n)) * d, with n = 2 and c = 10
Profile(width, d) == Cx(Q(1), QNorm(2 * 10 * d, omega * width * width))

\* C14: at a point a distance d > 0 beyond a side of the Computational Box
\* whose layer has positive width, the stretching factor of that axis is
\* 1 + i*coeff*d with coeff = n*c/(omega*width^n), n = 2, c = 10: real part
\* exactly 1, imaginary part linear in d
C14_LinearProfile ==
    pc = "assemble" =>
        \A i \in Axes, j \in {0, 1} :
            (Beyond(i, j) > 0 /\ At2(pml_lngth, i, j) > 0)
                => At(dxs, i) = Profile(At2(pml_lngth, i, j), Beyond(i, j))

\* two depths of one layer, d and 2d: the deeper point's imaginary part is
\* twice the imaginary part the profile has at d
C14_Witness ==
    /\ pc = "assemble"
    /\ \E i \in Axes, j \in {0, 1} :
         /\ At2(pml_lngth, i, j) > 0
         /\ Beyond(i, j) = At2(pml_lngth, i, j)
         /\ At(dxs, i).re = Q(1)
         /\ At(dxs, i).im =
              QMul(Q(2), Profile(At2(pml_lngth, i, j), Beyond(i, j) \div 2).im)
         /\ At(dxs, i).im # Q(0)

(***************************************************************************)
(* C15                                                                     *)
(***************************************************************************)
\* element e of the mesh at the current level lies in element p of the mesh
\* at level lp: uniform refinement halves every cell along every axis
IsChild(lp, p, e) ==
    \A comp \in Axes :
        Digit(e, comp, Cells(level)) \div Cells(level - lp) = Digit(p, comp, Cells(lp))

\* the square of the diameter of an element of the mesh at the current level
Diameter2 ==
    LET h(i) == (Hi(box, i) - Lo(box, i)) \div Cells(level)
    IN  IF dim = 2 THEN h(0) * h(0) + h(1) * h(1)
        ELSE h(0) * h(0) + h(1) * h(1) + h(2) * h(2)

\* every vertex of element p at level lp is inside the Computational Box by
\* more than the diameter of the refined elements, on every axis
DeepInside(lp, p) ==
    LET vertices == GetVertices(dim, lp, p)
        diam2    == Diameter2
    IN  \A iv \in 0..(Len(Corners(dim)) - 1), comp \in Axes :
            LET v  == NodeCoord(box, dim, lp, At(vertices, iv), comp)
                dl == v - At2(comp_domain_bdr, comp, 0)
                dh == At2(comp_domain_bdr, comp, 1) - v
            IN  dl > 0 /\ dh > 0 /\ dl * dl > diam2 /\ dh * dh > diam2

\* C15: when an element of a coarser mesh has all its vertices farther inside
\* the Computational Box than the diameter of the refined elements, every
\* element uniform refinement makes of it is classified interior (flag 1)
C15_RefinementKeepsInterior ==
    pc = "classified" =>
        \A lp \in 0..level :
            \A p \in 0..(GetNE(dim, lp) - 1) :
                DeepInside(lp, p) =>
                    \A e \in 0..(GetNE(dim, level) - 1) :
                        IsChild(lp, p, e) => At(elems_pml, e) = 1

\* a refined mesh with such a parent, its children interior, and layer
\* elements elsewhere
C15_Witness ==
    /\ pc = "classified"
    /\ \E lp \in 0..(level - 1) :
         \E p \in 0..(GetNE(dim, lp) - 1) :
            /\ DeepInside(lp, p)
            /\ \E e \in 0..(GetNE(dim, level) - 1) : IsChild(lp, p, e)
            /\ \A e \in 0..(GetNE(dim, level) - 1) :
                 IsChild(lp, p, e) => At(elems_pml, e) = 1
    /\ \E e \in 0..(GetNE(dim, level) - 1) : At(elems_pml, e) = 0

(***************************************************************************)
(* C18                                                                     *)
(***************************************************************************)
\* x is the source point of the scatter variant: the centre of the domain
AtSourcePoint ==
    \A i \in Axes :
        /\ 2 * At(x, i)[1] = At2(domain_bdr, i, 0) + At2(domain_bdr, i, 1)
        /\ At(x, i)[2] = 0

\* C18: in the scatter variant, at the point where r = 0, the run goes on
\* without an error and every component the boundary data hands to its
\* caller is a non-finite value
C18_NonFiniteAtSource ==
    (pc = "project" /\ prob = "scatter" /\ AtSourcePoint)
        => /\ Len(E_Re) = dim /\ Len(E_Im) = dim
           /\ \A i \in Axes : /\ At(E_Re, i).tag = "NonFinite"
                              /\ At(E_Im, i).tag = "NonFinite"

C18_Witness ==
    /\ pc = "project" /\ prob = "scatter" /\ dim = 3 /\ AtSourcePoint
    /\ At(E_Re, 0).tag = "NonFinite" /\ At(E_Im, 2).tag = "NonFinite"
    /\ ~QFinite(RadialTerm(0)) /\ ~QFinite(RadialTerm(2))

(***************************************************************************)
(* C19                                                                     *)
(***************************************************************************)
\* x is strictly outside the Computational Box on axis i
StrictlyOutside(i) ==
    \/ XCoord(i) > At2(comp_domain_bdr, i, 1)
    \/ XCoord(i) < At2(comp_domain_bdr, i, 0)

\* C19: at every point of the domain and on every axis the stretching factor
\* has real part exactly 1 and imaginary part >= 0, and the imaginary part is
\* > 0 exactly when the coordinate is strictly outside the Computational Box;
\* a point on the boundary of the box gets 1 + 0i
C19_StretchAgreesWithClassifier ==
    pc = "assemble" =>
        \A i \in Axes :
            /\ At(dxs, i).re = Q(1)
            /\ QFinite(At(dxs, i).im) /\ At(dxs, i).im[1] >= 0
            /\ At(dxs, i).im[1] > 0 <=> StrictlyOutside(i)

(***************************************************************************)
(* C16                                                                     *)
(***************************************************************************)
\* the steps of the solve pipeline, in order
Pipeline ==
    << "b.Assemble", "a.Assemble", "FormLinearSystem", "GetSystemMatrix",
       "SuperLUSolver::Mult", "RecoverFEMSolution" >>

IsPipelineStep(e) == \E k \in 1..Len(Pipeline) : Pipeline[k] = e

\* the pipeline steps a run has executed so far, in the order it executed them
PipelineLog(l) == SelectSeq(l, IsPipelineStep)

IsPrefix(s, t) == Len(s) <= Len(t) /\ s = SubSeq(t, 1, Len(s))

\* C16: a run of main executes the steps of the solve pipeline in the one
\* order b.Assemble, a.Assemble, FormLinearSystem, GetSystemMatrix,
\* SuperLUSolver::Mult, RecoverFEMSolution: a step is only ever added after
\* the steps before it, none is executed twice, and a run that reaches the
\* end of main has executed each of them exactly once
C16_FixedSequence ==
    [][ /\ IsPrefix(log, log')
        /\ Len(log') <= Len(log) + 1
        /\ IsPrefix(PipelineLog(log'), Pipeline)
        /\ pc' = "m_done" => PipelineLog(log') = Pipeline ]_vars

\* a run that came to the end of main after the whole pipeline
C16_Witness ==
    /\ pc = "m_done"
    /\ PipelineLog(log) = Pipeline
    /\ level = 2

(***************************************************************************)
(* C17                                                                     *)
(***************************************************************************)
\* the place of statement l in main, 0 for a run that has ended early
Position(l) ==
    IF \E k \in 1..Len(MainOrder) : MainOrder[k] = l
    THEN CHOOSE k \in 1..Len(MainOrder) : MainOrder[k] = l
    ELSE 0

\* compute_pml_mesh_data has returned
MeshDataReturned == Position(pc) > Position("m_mesh_data")

\* C17: omega is assigned once, from 2*pi*freq, and after
\* compute_pml_mesh_data has returned no step of main (refinement,
\* classification, the callables, assembly, solve, recovery, error norms)
\* changes domain_bdr, pml_lngth, comp_domain_bdr, prob, dim or omega
C17_ConfigWrittenOnce ==
    [][ /\ omega' # omega => (pc = "m_omega" /\ omega = 0)
        /\ pc = "m_omega" => omega' = 5 * args.freq
        /\ MeshDataReturned =>
              UNCHANGED <<domain_bdr, pml_lngth, comp_domain_bdr, prob, dim, omega>> ]_vars

\* a run at the end of main, after refinement, assembly and solve, with the
\* configuration compute_pml_mesh_data left
C17_Witness ==
    /\ pc = "m_done"
    /\ level = 2
    /\ omega = 5 * args.freq
    /\ prob = "load_src" /\ dim = 3
    /\ At2(pml_lngth, 0, 0) = QuarterExtent(domain_bdr, 0)
    /\ At2(comp_domain_bdr, 2, 1) = At2(domain_bdr, 2, 1) - At2(pml_lngth, 2, 1)

(***************************************************************************)
(* C20                                                                     *)
(***************************************************************************)
\* the volumetric source integrator of the linear form
SourceIntegrator == [integ |-> "VectorFEDomainLFIntegrator", re |-> "NULL", im |-> "f_Im"]

\* a projection has just called E_bdr_data_Re and E_bdr_data_Im at x
AfterProjection == pc \in {"m_coefficients", "m_error"}

====
